---------------------------- MODULE Spec2Model ----------------------------
(***************************************************************************)
(* A model of wholefoods.go (TrackWholeFoodsOrders): the date normaliser   *)
(* ConvtoTime, the field extractor ExtractFeat, the cursor rewrite         *)
(* GetQuery, the sync run UpdateDB -> ReadData -> GetOrderFeats ->         *)
(* InsertOrder, and the condition panel CreateView.                        *)
(*                                                                         *)
(* Go strings are sequences of one-character strings, so that slicing,     *)
(* trimming, splitting and parsing are computed character by character.    *)
(* Go indices are 0-based; Slice(s, a, b) is Go's s[a:b].                  *)
(***************************************************************************)
EXTENDS Integers, Sequences, FiniteSets, TLC

VARIABLES
    \* ConvtoTime applied to one phrase
    convIn, convOut,
    \* GetQuery(query, lastupdate)
    gqQuery, gqLastupdate, gqOut,
    \* ExtractFeat: the token stream, the loop index, the found flags, the
    \* named results, the position of the function, the highest index read
    info, i, idFound, dtFound, totFound, id, date, tot, epc, maxRead,
    \* the sync run
    update, msgs, msgIdx, Orders, snapshot, insIdx, store, spc, abortedBy,
    \* CreateView
    cond, Condmap, cat, vpc, resp, lastQuery, scanOk

varsConv    == <<convIn, convOut>>
varsQuery   == <<gqQuery, gqLastupdate, gqOut>>
varsExtract == <<info, i, idFound, dtFound, totFound, id, date, tot, epc, maxRead>>
varsSync    == <<update, msgs, msgIdx, Orders, snapshot, insIdx, store, spc, abortedBy>>
varsView    == <<cond, Condmap, cat, vpc, resp, lastQuery, scanOk>>
vars        == <<varsConv, varsQuery, varsExtract, varsSync, varsView>>

-----------------------------------------------------------------------------
(* Characters and strings *)

Digits == <<"0", "1", "2", "3", "4", "5", "6", "7", "8", "9">>

IsDigit(c) == \E k \in 1..10 : Digits[k] = c

DigitVal(c) == (CHOOSE k \in 1..10 : Digits[k] = c) - 1

UpperLetters ==
    {"A", "B", "C", "D", "E", "F", "G", "H", "I", "J", "K", "L", "M",
     "N", "O", "P", "Q", "R", "S", "T", "U", "V", "W", "X", "Y", "Z"}

LowerLetters ==
    {"a", "b", "c", "d", "e", "f", "g", "h", "i", "j", "k", "l", "m",
     "n", "o", "p", "q", "r", "s", "t", "u", "v", "w", "x", "y", "z"}

\* the character class [A-Za-z]
IsLetter(c) == c \in UpperLetters \cup LowerLetters

\* unicode.IsSpace on the characters a message body holds
IsSpace(c) == c \in {" ", "\n", "\t", "\r"}

\* Go's s[a:b] on a string or a slice, for 0 <= a <= b <= len(s)
Slice(s, a, b) == SubSeq(s, a + 1, b)

RECURSIVE Join(_, _)
\* strings.Join(elems, sep)
Join(elems, sep) ==
    IF elems = <<>> THEN <<>>
    ELSE IF Len(elems) = 1 THEN elems[1]
    ELSE elems[1] \o sep \o Join(Tail(elems), sep)

\* whether a field of s starts at or after position from
HasField(s, from) == \E k \in from..Len(s) : ~IsSpace(s[k])

\* where the next field starts: the first non-space character at or after from
FieldStart(s, from) ==
    CHOOSE k \in from..Len(s) : ~IsSpace(s[k]) /\ \A m \in from..(k - 1) : IsSpace(s[m])

\* where the field starting at k ends: before the next space, or at the end of s
FieldEnd(s, k) ==
    CHOOSE j \in k..Len(s) :
        /\ \A m \in k..j : ~IsSpace(s[m])
        /\ (j = Len(s) \/ IsSpace(s[j + 1]))

RECURSIVE FieldsFrom(_, _)
\* the fields of s at or after position from, in order
FieldsFrom(s, from) ==
    IF ~HasField(s, from) THEN <<>>
    ELSE LET k == FieldStart(s, from)
             j == FieldEnd(s, k)
         IN  <<SubSeq(s, k, j)>> \o FieldsFrom(s, j + 1)

\* strings.Fields(s): the maximal runs of non-space characters, in order
Fields(s) == FieldsFrom(s, 1)

RECURSIVE TrimLeft(_, _)
TrimLeft(s, c) == IF s # <<>> /\ Head(s) = c THEN TrimLeft(Tail(s), c) ELSE s

RECURSIVE TrimRight(_, _)
TrimRight(s, c) ==
    IF s # <<>> /\ s[Len(s)] = c THEN TrimRight(SubSeq(s, 1, Len(s) - 1), c) ELSE s

\* strings.Trim(s, cutset) for a cutset of one character
Trim(s, c) == TrimRight(TrimLeft(s, c), c)

RECURSIVE DigitsVal(_, _)
\* the value of a run of decimal digits, most significant first
DigitsVal(s, acc) ==
    IF s = <<>> THEN acc ELSE DigitsVal(Tail(s), acc * 10 + DigitVal(Head(s)))

AllDigits(s) == \A k \in 1..Len(s) : IsDigit(s[k])

\* strconv.Atoi(s): an optional sign and at least one decimal digit
Atoi(s) ==
    LET signed == s # <<>> /\ s[1] \in {"+", "-"}
        body   == IF signed THEN Tail(s) ELSE s
    IN  IF body = <<>> \/ ~AllDigits(body)
        THEN [err |-> TRUE, val |-> 0]
        ELSE [err |-> FALSE,
              val |-> IF signed /\ s[1] = "-" THEN 0 - DigitsVal(body, 0)
                      ELSE DigitsVal(body, 0)]


-----------------------------------------------------------------------------
(* Month Table and ConvtoTime *)

MonthNames ==
    <<<<"J", "a", "n">>,
      <<"F", "e", "b">>,
      <<"M", "a", "r">>,
      <<"A", "p", "r">>,
      <<"M", "a", "y">>,
      <<"J", "u", "n">>,
      <<"J", "u", "l">>,
      <<"A", "u", "g">>,
      <<"S", "e", "p">>,
      <<"O", "c", "t">>,
      <<"N", "o", "v">>,
      <<"D", "e", "c">>>>

\* Monthmap[month]: a key outside the table reads as the empty string
Monthmap(month) ==
    CASE
         month = <<"J", "a", "n">> -> <<"0", "1">>
      [] month = <<"F", "e", "b">> -> <<"0", "2">>
      [] month = <<"M", "a", "r">> -> <<"0", "3">>
      [] month = <<"A", "p", "r">> -> <<"0", "4">>
      [] month = <<"M", "a", "y">> -> <<"0", "5">>
      [] month = <<"J", "u", "n">> -> <<"0", "6">>
      [] month = <<"J", "u", "l">> -> <<"0", "7">>
      [] month = <<"A", "u", "g">> -> <<"0", "8">>
      [] month = <<"S", "e", "p">> -> <<"0", "9">>
      [] month = <<"O", "c", "t">> -> <<"1", "0">>
      [] month = <<"N", "o", "v">> -> <<"1", "1">>
      [] month = <<"D", "e", "c">> -> <<"1", "2">>
      [] OTHER -> <<>>

PadDayNever(day, dayint) == day

\* if dayint < 10 { day = "0" + day }
PadDay(day, dayint) == IF dayint < 10 THEN <<"0">> \o day ELSE day

\* ConvtoTime(t): st is "ok" (val is the date returned), "fatal" (log.Fatal:
\* the process exits) or "panic" (an index or slice bound out of range)
ConvtoTime(t) ==
    LET fields == Fields(t) IN
    IF Len(fields) < 1 THEN [st |-> "panic", val |-> <<>>]
    ELSE
    LET rawtime == Slice(fields, 1, Len(fields)) IN
    IF Len(rawtime) < 1 \/ Len(rawtime[1]) < 3 THEN [st |-> "panic", val |-> <<>>]
    ELSE
    LET month == Slice(rawtime[1], 0, 3) IN
    IF Len(rawtime) < 2 THEN [st |-> "panic", val |-> <<>>]
    ELSE
    LET day    == Trim(rawtime[2], ",")
        dayint == Atoi(day)
    IN
    IF dayint.err THEN [st |-> "fatal", val |-> <<>>]
    ELSE IF Len(rawtime) < 3 THEN [st |-> "panic", val |-> <<>>]
    ELSE
    LET year == rawtime[3] IN
    [st  |-> "ok",
     val |-> year \o <<"-">> \o Monthmap(month) \o <<"-">> \o PadDay(day, dayint.val)]

-----------------------------------------------------------------------------
(* GetQuery: the cursor rewrite *)

RECURSIVE ReplaceDash(_)
\* regexp "-" . ReplaceAllString(s, "/")
ReplaceDash(s) ==
    IF s = <<>> THEN <<>>
    ELSE (IF Head(s) = "-" THEN <<"/">> ELSE <<Head(s)>>) \o ReplaceDash(Tail(s))

RECURSIVE ReplaceLetterRuns(_, _, _)
\* regexp "[A-Za-z]+" . ReplaceAllString(s, repl): every maximal run of
\* letters becomes repl; inRun says the last character read was a letter
ReplaceLetterRuns(s, repl, inRun) ==
    IF s = <<>> THEN <<>>
    ELSE IF IsLetter(Head(s))
         THEN (IF inRun THEN <<>> ELSE repl) \o ReplaceLetterRuns(Tail(s), repl, TRUE)
         ELSE <<Head(s)>> \o ReplaceLetterRuns(Tail(s), repl, FALSE)

MonthKeyShifted(lastupdate) == Slice(lastupdate, 4, 7)

\* lastupdate[5:8]
MonthKey(lastupdate) == Slice(lastupdate, 5, 8)

\* GetQuery(query, lastupdate): st is "ok" or "panic" (lastupdate[5:8] out of range)
GetQuery(query, lastupdate) ==
    LET slashed == ReplaceDash(lastupdate) IN
    IF Len(slashed) < 8 THEN [st |-> "panic", val |-> <<>>]
    ELSE
    LET rewritten == ReplaceLetterRuns(slashed, Monthmap(MonthKey(slashed)), FALSE)
    IN  [st |-> "ok", val |-> query \o <<" ", "a", "f", "t", "e", "r", ":">> \o rewritten]


\* const query
query ==
    <<"{", "f", "r", "o", "m", ":", "o", "r", "d", "e", "r", "-", "u", "p",
      "d", "a", "t", "e", "@", "a", "m", "a", "z", "o", "n", ".", "c", "o",
      "m", "}", " ", "'", "y", "o", "u", "r", " ", "d", "e", "l", "i", "v",
      "e", "r", "y", " ", "i", "s", " ", "c", "o", "m", "p", "l", "e", "t",
      "e", "'", " ", "'", "G", "r", "a", "n", "d", " ", "t", "o", "t", "a",
      "l", "'">>

-----------------------------------------------------------------------------
(* The parts of the model a specification leaves idle *)

IdleConv == convIn = <<>> /\ convOut = [st |-> "idle", val |-> <<>>]

IdleQuery ==
    gqQuery = <<>> /\ gqLastupdate = <<>> /\ gqOut = [st |-> "idle", val |-> <<>>]

-----------------------------------------------------------------------------
(* Decimal formatting, used to build inputs and to state expected results *)

MaxDay == 31

RECURSIVE Itoa(_)
Itoa(n) ==
    IF n < 10 THEN <<Digits[n + 1]>> ELSE Itoa(n \div 10) \o <<Digits[(n % 10) + 1]>>

TwoDigits(n) == <<Digits[(n \div 10) + 1], Digits[(n % 10) + 1]>>

Years == {<<"2", "0", "2", "1">>, <<"1", "9", "9", "9">>}

-----------------------------------------------------------------------------
(* strconv.ParseFloat, on the decimal and the special forms.  A float64 is  *)
(* [k, m, s]: k = "num" is the decimal m / 10^s with no trailing zero in    *)
(* the fraction, k = "inf" is m = 1 or -1 for +Inf or -Inf, k = "nan" is    *)
(* NaN.  Exponent and hexadecimal forms are not among the tokens of the     *)
(* message bodies below.                                                    *)

RECURSIVE Norm(_, _)
Norm(m, s) == IF s > 0 /\ m % 10 = 0 THEN Norm(m \div 10, s - 1) ELSE [k |-> "num", m |-> m, s |-> s]

\* the zero value of a float64
ZeroFloat == [k |-> "num", m |-> 0, s |-> 0]

NaN == [k |-> "nan", m |-> 0, s |-> 0]

Inf(sign) == [k |-> "inf", m |-> sign, s |-> 0]

\* the lower case of the letters "infinity" and "nan" are made of
LowerOf(c) ==
    CASE c = "I" -> "i" [] c = "N" -> "n" [] c = "F" -> "f" [] c = "T" -> "t"
      [] c = "Y" -> "y" [] c = "A" -> "a" [] OTHER -> c

ToLower(s) == [k \in 1..Len(s) |-> LowerOf(s[k])]

W_inf == <<"i", "n", "f">>

W_infinity == <<"i", "n", "f", "i", "n", "i", "t", "y">>

W_nan == <<"n", "a", "n">>

\* strconv's special(): [ok, val] for (+|-)?inf, (+|-)?infinity and nan, in any case
Special(s) ==
    LET signed == s # <<>> /\ s[1] \in {"+", "-"}
        body   == ToLower(IF signed THEN Tail(s) ELSE s)
    IN  IF body \in {W_inf, W_infinity}
        THEN [ok |-> TRUE, val |-> Inf(IF signed /\ s[1] = "-" THEN -1 ELSE 1)]
        ELSE IF ~signed /\ body = W_nan THEN [ok |-> TRUE, val |-> NaN]
        ELSE [ok |-> FALSE, val |-> ZeroFloat]

\* the characters of s that are not c, in order
Without(s, c) == SelectSeq(s, LAMBDA ch : ch # c)

\* strconv.ParseFloat(s, 64): [err, val]
ParseFloat(s) ==
    LET sp == Special(s) IN
    IF sp.ok THEN [err |-> FALSE, val |-> sp.val]
    ELSE
    LET signed == s # <<>> /\ s[1] \in {"+", "-"}
        body   == IF signed THEN Tail(s) ELSE s
        dots   == {k \in 1..Len(body) : body[k] = "."}
        digs   == Without(body, ".")
    IN  IF Cardinality(dots) > 1 \/ digs = <<>> \/ ~AllDigits(digs)
        THEN [err |-> TRUE, val |-> ZeroFloat]
        ELSE LET scale == IF dots = {} THEN 0 ELSE Len(body) - (CHOOSE k \in dots : TRUE)
                 mant  == DigitsVal(digs, 0)
             IN  [err |-> FALSE,
                  val |-> Norm(IF signed /\ s[1] = "-" THEN 0 - mant ELSE mant, scale)]

Negative(total) ==
    \/ total.k = "num" /\ total.m < 0
    \/ total.k = "inf" /\ total.m < 0

\* total <= 0 (false of NaN)
NonPositive(total) ==
    \/ total.k = "num" /\ total.m <= 0
    \/ total.k = "inf" /\ total.m < 0

-----------------------------------------------------------------------------
(* ExtractFeat *)

\* const GrandTotal = "Grand total:"
GrandTotal == <<"G", "r", "a", "n", "d", " ", "t", "o", "t", "a", "l", ":">>

\* const DeliveryTime = "delivery time:"
DeliveryTime == <<"d", "e", "l", "i", "v", "e", "r", "y", " ", "t", "i", "m", "e", ":">>

\* const OrderID = "Details Order"
OrderID == <<"D", "e", "t", "a", "i", "l", "s", " ", "O", "r", "d", "e", "r">>

\* the margin of the loop bound len(info)-20
Margin == 20

LoopCondNoMargin(k, toks) == k < Len(toks)

\* i < len(info)-20
LoopCond(k, toks) == k < Len(toks) - Margin

\* whether toks[a:b] is within range
SliceOK(toks, a, b) == 0 <= a /\ a <= b /\ b <= Len(toks)

\* strings.Join(info[i:i+2], " ") == marker
MarkerAt(toks, k, marker) == Join(Slice(toks, k, k + 2), <<" ">>) = marker

TryMarkerAlways(found) == TRUE

\* the guards !dtFound, !totFound, !idFound of the three branches
TryMarker(found) == ~found

Max(a, b) == IF a >= b THEN a ELSE b

\* the state of ExtractFeat on entry: the named results at their zero values
ExtractInit ==
    [i |-> 0, idFound |-> FALSE, dtFound |-> FALSE, totFound |-> FALSE,
     id |-> <<>>, date |-> <<>>, tot |-> ZeroFloat, pc |-> "loop", maxRead |-> -1]

\* One iteration of the loop at index st.i.  pc becomes "fatal" at a log.Fatal,
\* "panic" at an index of info out of range, "panicConv" at a panic inside
\* ConvtoTime; maxRead is the highest index of info read so far.
ExtractStep(st, toks) ==
    LET k     == st.i
        cmpOK == SliceOK(toks, k, k + 2)
        oob(h) == [st EXCEPT !.pc = "panic", !.maxRead = Max(st.maxRead, h)]
    IN
    IF TryMarker(st.dtFound) /\ ~cmpOK THEN oob(k + 1)
    ELSE IF TryMarker(st.dtFound) /\ MarkerAt(toks, k, DeliveryTime) THEN
        IF ~SliceOK(toks, k + 2, k + 2 + 4) THEN oob(k + 5)
        ELSE LET rawdate == Join(Slice(toks, k + 2, k + 2 + 4), <<" ">>)
                 conv    == ConvtoTime(rawdate)
             IN  IF conv.st = "ok"
                 THEN [st EXCEPT !.date = conv.val, !.dtFound = TRUE, !.i = k + 1,
                                 !.maxRead = Max(st.maxRead, k + 5)]
                 ELSE [st EXCEPT !.pc = IF conv.st = "fatal" THEN "fatal" ELSE "panicConv",
                                 !.maxRead = Max(st.maxRead, k + 5)]
    ELSE IF TryMarker(st.totFound) /\ ~cmpOK THEN oob(k + 1)
    ELSE IF TryMarker(st.totFound) /\ MarkerAt(toks, k, GrandTotal) THEN
        IF k + 2 >= Len(toks) THEN oob(k + 2)
        ELSE LET trim  == Trim(toks[k + 2 + 1], "$")
                 total == ParseFloat(trim)
             IN  IF total.err \/ NonPositive(total.val)
                 THEN [st EXCEPT !.pc = "fatal", !.maxRead = Max(st.maxRead, k + 2)]
                 ELSE [st EXCEPT !.tot = total.val, !.totFound = TRUE, !.i = k + 1,
                                 !.maxRead = Max(st.maxRead, k + 2)]
    ELSE IF TryMarker(st.idFound) /\ ~cmpOK THEN oob(k + 1)
    ELSE IF TryMarker(st.idFound) /\ MarkerAt(toks, k, OrderID) THEN
        IF k + 2 >= Len(toks) THEN oob(k + 2)
        ELSE [st EXCEPT !.id = toks[k + 2 + 1], !.idFound = TRUE, !.i = k + 1,
                        !.maxRead = Max(st.maxRead, k + 2)]
    ELSE [st EXCEPT !.i = k + 1,
                    !.maxRead = IF TryMarker(st.dtFound) \/ TryMarker(st.totFound)
                                   \/ TryMarker(st.idFound)
                                THEN Max(st.maxRead, k + 1) ELSE st.maxRead]

RECURSIVE ExtractLoop(_, _)
\* the loop of ExtractFeat run to its end: pc is "done" at the return
ExtractLoop(st, toks) ==
    IF st.pc # "loop" THEN st
    ELSE IF LoopCond(st.i, toks) THEN ExtractLoop(ExtractStep(st, toks), toks)
    ELSE [st EXCEPT !.pc = "done"]

\* ExtractFeat(s): info := strings.Fields(string(*s)), then the loop
ExtractFeat(s) == ExtractLoop(ExtractInit, Fields(s))

-----------------------------------------------------------------------------
(* The tokens and the phrases message bodies are built from *)

T_delivery == <<"d", "e", "l", "i", "v", "e", "r", "y">>

T_time == <<"t", "i", "m", "e", ":">>

T_Grand == <<"G", "r", "a", "n", "d">>

T_total == <<"t", "o", "t", "a", "l", ":">>

T_Details == <<"D", "e", "t", "a", "i", "l", "s">>

T_Order == <<"O", "r", "d", "e", "r">>

T_Mon == <<"M", "o", "n">>

T_Tue == <<"T", "u", "e">>

T_January == <<"J", "a", "n", "u", "a", "r", "y">>

T_Feb == <<"F", "e", "b">>

T_day5 == <<"5", ",">>

T_day12 == <<"1", "2">>

T_2021 == <<"2", "0", "2", "1">>

T_1999 == <<"1", "9", "9", "9">>

T_amt2345 == <<"$", "2", "3", ".", "4", "5">>

T_amt700 == <<"$", "7", ".", "0", "0">>

T_amt0 == <<"$", "0", ".", "0", "0">>

T_amtBad == <<"a", "b", "c">>

T_amtNaN == <<"N", "a", "N">>

T_id1 == <<"1", "1", "2", "-", "7", "0", "0", "0", "0", "0", "1">>

T_id2 == <<"1", "1", "3", "-", "9">>

T_x == <<"x">>

\* a delivery time and its date phrase: weekday, month word, day, year
P_dt1 == <<T_delivery, T_time, T_Mon, T_January, T_day5, T_2021>>

P_dt2 == <<T_delivery, T_time, T_Tue, T_Feb, T_day12, T_1999>>

\* the marker alone: the date phrase is whatever follows
P_dtBare == <<T_delivery, T_time>>

P_tot1 == <<T_Grand, T_total, T_amt2345>>

P_tot2 == <<T_Grand, T_total, T_amt700>>

P_totZero == <<T_Grand, T_total, T_amt0>>

P_totBad == <<T_Grand, T_total, T_amtBad>>

P_totNaN == <<T_Grand, T_total, T_amtNaN>>

P_id1 == <<T_Details, T_Order, T_id1>>

P_id2 == <<T_Details, T_Order, T_id2>>

P_x == <<T_x>>

\* half a marker
P_Grand == <<T_Grand>>

\* the three fields of one order
P_order == P_dt1 \o P_tot1 \o P_id1

\* the length of a run of plain words, such as the rest of the e-mail
PadLen == 18

P_pad == [k \in 1..PadLen |-> T_x]

Phrases ==
    {P_dt1, P_dt2, P_dtBare, P_tot1, P_tot2, P_totZero, P_totBad, P_totNaN,
     P_id1, P_id2, P_x, P_Grand, P_order, P_pad}

\* the most phrases in one message body
MaxPhrases == 3

RECURSIVE Flatten(_)
Flatten(ps) == IF ps = <<>> THEN <<>> ELSE Head(ps) \o Flatten(Tail(ps))

PhraseLists == UNION {[1..n -> Phrases] : n \in 0..MaxPhrases}

\* the text of a body: its words, separated by blanks and line ends
BodyText(ps) == Join(Flatten(ps), <<" ">>) \o <<"\n">>

-----------------------------------------------------------------------------
(* ExtractFeat, one loop iteration at a time *)

IdleExtract ==
    /\ info = <<>> /\ i = 0
    /\ idFound = FALSE /\ dtFound = FALSE /\ totFound = FALSE
    /\ id = <<>> /\ date = <<>> /\ tot = ZeroFloat
    /\ epc = "idle" /\ maxRead = -1

IdleSync ==
    /\ update = "" /\ msgs = <<>> /\ msgIdx = 0 /\ Orders = <<>>
    /\ snapshot = <<>> /\ insIdx = 0 /\ store = <<>> /\ spc = "idle" /\ abortedBy = ""

IdleView ==
    /\ cond = [start |-> "", end |-> "", lb |-> "", ub |-> "", numrows |-> ""]
    /\ Condmap = [g \in 1..3 |-> FALSE]
    /\ cat = 0 /\ vpc = "idle" /\ resp = "" /\ lastQuery = <<>> /\ scanOk = TRUE

\* the variables of ExtractFeat as the record ExtractStep works on
ExtractCur ==
    [i |-> i, idFound |-> idFound, dtFound |-> dtFound, totFound |-> totFound,
     id |-> id, date |-> date, tot |-> tot, pc |-> epc, maxRead |-> maxRead]

ExtractSet(st) ==
    /\ i' = st.i /\ idFound' = st.idFound /\ dtFound' = st.dtFound
    /\ totFound' = st.totFound /\ id' = st.id /\ date' = st.date
    /\ tot' = st.tot /\ epc' = st.pc /\ maxRead' = st.maxRead

\* ExtractFeat is entered with a body: info := strings.Fields(string(*s))
InitExtract ==
    /\ \E ps \in PhraseLists : info = Fields(BodyText(ps))
    /\ i = 0 /\ idFound = FALSE /\ dtFound = FALSE /\ totFound = FALSE
    /\ id = <<>> /\ date = <<>> /\ tot = ZeroFloat
    /\ epc = "loop" /\ maxRead = -1
    /\ IdleConv /\ IdleQuery /\ IdleSync /\ IdleView

\* the loop condition holds: the body of the loop runs once
ExtractIterate ==
    /\ epc = "loop"
    /\ LoopCond(i, info)
    /\ ExtractSet(ExtractStep(ExtractCur, info))
    /\ UNCHANGED <<info, varsConv, varsQuery, varsSync, varsView>>

\* the loop condition fails: return id, date, tot
ExtractReturn ==
    /\ epc = "loop"
    /\ ~LoopCond(i, info)
    /\ epc' = "done"
    /\ UNCHANGED <<info, i, idFound, dtFound, totFound, id, date, tot, maxRead>>
    /\ UNCHANGED <<varsConv, varsQuery, varsSync, varsView>>

NextExtract == ExtractIterate \/ ExtractReturn

SpecExtract == InitExtract /\ [][NextExtract]_vars

-----------------------------------------------------------------------------
(* Properties of ExtractFeat *)

\* the two words w1 w2 stand at index k of info (0-based)
WordsAt(k, w1, w2) ==
    /\ 0 <= k /\ k + 2 <= Len(info)
    /\ info[k + 1] = w1 /\ info[k + 2] = w2

\* the indices the loop of ExtractFeat visits on a stream of this length
Scanned(k) == 0 <= k /\ k + Margin < Len(info)

SetMin(S) == CHOOSE x \in S : \A y \in S : x <= y

\* the occurrences of a marker the loop has passed, and all those it visits
PassedOcc(w1, w2) == {k \in 0..(i - 1) : WordsAt(k, w1, w2)}

ScannedOcc(w1, w2) == {k \in 0..Len(info) : Scanned(k) /\ WordsAt(k, w1, w2)}

\* what each marker's branch takes from the occurrence at index k
IdAt(k) == info[k + 3]

TotalAt(k) == ParseFloat(Trim(info[k + 3], "$")).val

DateAt(k) == ConvtoTime(Join(SubSeq(info, k + 3, k + 6), <<" ">>)).val

\* C1: for each of the three markers, the flag is set exactly when an
\* occurrence of the marker has been passed, and the value held for it is the
\* one taken at the leftmost such occurrence: a later occurrence of a marker
\* already captured changes nothing.
C1_FirstOccurrenceWins ==
    epc \in {"loop", "done", "fatal", "panicConv"} =>
        /\ idFound <=> PassedOcc(T_Details, T_Order) # {}
        /\ idFound => id = IdAt(SetMin(PassedOcc(T_Details, T_Order)))
        /\ totFound <=> PassedOcc(T_Grand, T_total) # {}
        /\ totFound => tot = TotalAt(SetMin(PassedOcc(T_Grand, T_total)))
        /\ dtFound <=> PassedOcc(T_delivery, T_time) # {}
        /\ dtFound => date = DateAt(SetMin(PassedOcc(T_delivery, T_time)))
        /\ epc = "done" =>
             /\ PassedOcc(T_Details, T_Order) = ScannedOcc(T_Details, T_Order)
             /\ PassedOcc(T_Grand, T_total) = ScannedOcc(T_Grand, T_total)
             /\ PassedOcc(T_delivery, T_time) = ScannedOcc(T_delivery, T_time)

\* ExtractFeat returned, having visited two occurrences of "Details Order"
\* followed by different tokens
C1_Witness ==
    /\ epc = "done"
    /\ \E k1, k2 \in ScannedOcc(T_Details, T_Order) : k1 < k2 /\ IdAt(k1) # IdAt(k2)
    /\ id # <<>>

\* C7: no index of info at or past its end is ever read, on a stream of any
\* length, and at the return a marker with no occurrence at a visited index
\* (index < len(info)-20) was not captured: its output is the zero value.
C7_NoReadPastEnd ==
    /\ maxRead < Len(info)
    /\ epc # "panic"
    /\ epc = "done" =>
         /\ ScannedOcc(T_Details, T_Order) = {} => ~idFound /\ id = <<>>
         /\ ScannedOcc(T_Grand, T_total) = {} => ~totFound /\ tot = ZeroFloat
         /\ ScannedOcc(T_delivery, T_time) = {} => ~dtFound /\ date = <<>>

\* ExtractFeat returned on a stream where "Details Order" begins within the
\* last 20 tokens, and the id is empty
C7_Witness ==
    /\ epc = "done"
    /\ Len(info) > Margin
    /\ \E k \in 0..Len(info) : WordsAt(k, T_Details, T_Order) /\ ~Scanned(k)
    /\ id = <<>>

\* amount tokens and the amounts they write, in hundredths; num is whether the
\* token is a number once the "$" is stripped
AmountTable ==
    {[tok |-> T_amt2345, num |-> TRUE,  cents |-> 2345],
     [tok |-> T_amt700,  num |-> TRUE,  cents |-> 700],
     [tok |-> T_amt0,    num |-> TRUE,  cents |-> 0],
     [tok |-> T_amtBad,  num |-> FALSE, cents |-> 0]}

\* the amount token is not a number, or not a positive one
BadAmount(e) == ~e.num \/ e.cents <= 0

\* the first occurrence of "Grand total:" the loop visits is followed by token e.tok
FirstTotalIs(e) ==
    /\ ScannedOcc(T_Grand, T_total) # {}
    /\ info[SetMin(ScannedOcc(T_Grand, T_total)) + 3] = e.tok

-----------------------------------------------------------------------------
(* ConvtoTime applied to date phrases *)

Weekdays == {T_Mon, <<"T", "u", "e", "s", "d", "a", "y">>}

\* what follows the first three characters of a month word
MonthSuffixes == {<<>>, <<"u", "a", "r", "y">>}

\* month words: the 12 abbreviations, alone or inside a longer word, a word
\* that starts with no abbreviation, and a word shorter than an abbreviation
MonthWords ==
    {MonthNames[m] \o suf : m \in 1..12, suf \in MonthSuffixes}
        \cup {<<"X", "y", "z">>, <<"J", "a">>}

\* day tokens: "D" and "D," for D in 1..MaxDay, and tokens that are no such day
DayTokens ==
    {Itoa(d) \o c : d \in 1..MaxDay, c \in {<<>>, <<",">>}}
        \cup {<<"5", "t", "h">>, <<"0", "5">>, <<"-", "3">>}

\* the phrases: four words, and one cut short after the day
ConvPhrases ==
    {Join(<<wd, mw, dt, yr>>, <<" ">>) :
        wd \in Weekdays, mw \in MonthWords, dt \in DayTokens, yr \in Years}
        \cup {Join(<<T_Mon, T_January, T_day5>>, <<" ">>)}

InitConv ==
    /\ convIn \in ConvPhrases
    /\ convOut = [st |-> "none", val |-> <<>>]
    /\ IdleQuery /\ IdleExtract /\ IdleSync /\ IdleView

\* shortdate := ConvtoTime(t)
ConvApply ==
    /\ convOut.st = "none"
    /\ convOut' = ConvtoTime(convIn)
    /\ UNCHANGED <<convIn, varsQuery, varsExtract, varsSync, varsView>>

NextConv == ConvApply

SpecConv == InitConv /\ [][NextConv]_vars

\* the words w are: any weekday, a word starting with the m-th month
\* abbreviation, the day d written "d" or "d,", a 4-digit year
ValidPhrase(w, m, d) ==
    /\ Len(w) = 4
    /\ Len(w[2]) >= 3 /\ SubSeq(w[2], 1, 3) = MonthNames[m]
    /\ w[3] \in {Itoa(d), Itoa(d) \o <<",">>}
    /\ Len(w[4]) = 4 /\ AllDigits(w[4])

\* C8: for a valid phrase ConvtoTime returns YEAR-MM-DD, MM the two digits of
\* the month's number, DD the day in two digits (a leading zero for 1..9, the
\* day as written for 10..31), whatever the weekday.
C8_ConvtoTimeShape ==
    convOut.st # "none" =>
        LET w == Fields(convIn) IN
        \A m \in 1..12, d \in 1..MaxDay :
            ValidPhrase(w, m, d) =>
                convOut = [st  |-> "ok",
                           val |-> w[4] \o <<"-">> \o TwoDigits(m)
                                     \o <<"-">> \o TwoDigits(d)]

\* ConvtoTime returned for a valid phrase with a one-digit day
C8_Witness ==
    /\ convOut.st = "ok"
    /\ LET w == Fields(convIn) IN \E m \in 1..12, d \in 1..9 : ValidPhrase(w, m, d)

-----------------------------------------------------------------------------
(* GetQuery applied to base queries and cursors *)

BaseQueries == {query, <<"Q", "-", "a", " ", "b", "1">>}

DayParts == {<<"0", "1">>, <<"0", "5">>, <<"3", "1">>}

\* cursors of the layout YYYY-Mon-DD, and strings of other layouts
Cursors ==
    {yr \o <<"-">> \o MonthNames[m] \o <<"-">> \o dd :
        yr \in Years, m \in 1..12, dd \in DayParts}
        \cup {<<"2", "0", "2", "1">>,
              <<"2", "1", "-", "J", "a", "n", "-", "0", "5">>,
              <<"2", "0", "2", "1", "-", "X", "y", "z", "-", "0", "5">>,
              <<"2", "0", "2", "1", "-", "J", "a", "n", "u", "a", "r", "y", "-", "0", "5">>}

InitQuery ==
    /\ gqQuery \in BaseQueries
    /\ gqLastupdate \in Cursors
    /\ gqOut = [st |-> "none", val |-> <<>>]
    /\ IdleConv /\ IdleExtract /\ IdleSync /\ IdleView

\* NewQuery := GetQuery(query, lastupdate)
QueryApply ==
    /\ gqOut.st = "none"
    /\ gqOut' = GetQuery(gqQuery, gqLastupdate)
    /\ UNCHANGED <<gqQuery, gqLastupdate, varsConv, varsExtract, varsSync, varsView>>

NextQuery == QueryApply

SpecQuery == InitQuery /\ [][NextQuery]_vars

\* the cursor is YYYY-Mon-DD with Mon the m-th month abbreviation
CursorLayout(m) ==
    /\ Len(gqLastupdate) = 11
    /\ AllDigits(SubSeq(gqLastupdate, 1, 4))
    /\ gqLastupdate[5] = "-"
    /\ SubSeq(gqLastupdate, 6, 8) = MonthNames[m]
    /\ gqLastupdate[9] = "-"
    /\ AllDigits(SubSeq(gqLastupdate, 10, 11))

\* C9: for a cursor YYYY-Mon-DD, GetQuery returns the base query unchanged,
\* then " after:YYYY/MM/DD" with MM the two digits of the month's number.
C9_GetQueryAppendsAfter ==
    gqOut.st # "none" =>
        \A m \in 1..12 :
            CursorLayout(m) =>
                gqOut = [st  |-> "ok",
                         val |-> gqQuery \o <<" ", "a", "f", "t", "e", "r", ":">>
                                   \o SubSeq(gqLastupdate, 1, 4) \o <<"/">>
                                   \o TwoDigits(m) \o <<"/">>
                                   \o SubSeq(gqLastupdate, 10, 11)]

\* GetQuery returned for the cursor 2021-Jan-05 and the program's base query,
\* which holds letters and a dash
C9_Witness ==
    /\ gqOut.st = "ok"
    /\ gqQuery = query
    /\ gqLastupdate = <<"2", "0", "2", "1", "-", "J", "a", "n", "-", "0", "5">>

-----------------------------------------------------------------------------
(* The sync run: main's update question, UpdateDB, ReadData, GetOrderFeats,  *)
(* InsertOrder.  spc is the position of the run; at "fatal" log.Fatal has    *)
(* ended the process (abortedBy says where), at "panic" a run-time panic.    *)

RECURSIVE Pow10(_)
Pow10(n) == IF n = 0 THEN 1 ELSE 10 * Pow10(n - 1)

\* the digits of n in exactly w places
RECURSIVE Padded(_, _)
Padded(n, w) == IF w = 0 THEN <<>> ELSE Padded(n \div 10, w - 1) \o <<Digits[(n % 10) + 1]>>

\* fmt.Sprintf("%f", x): six places after the point
FormatF(x) ==
    IF x.k = "nan" THEN <<"N", "a", "N">>
    ELSE IF x.k = "inf" THEN (IF x.m < 0 THEN <<"-">> ELSE <<"+">>) \o <<"I", "n", "f">>
    ELSE LET a == IF x.m < 0 THEN 0 - x.m ELSE x.m IN
         (IF x.m < 0 THEN <<"-">> ELSE <<>>)
            \o Itoa(a \div Pow10(x.s)) \o <<".">>
            \o Padded((a % Pow10(x.s)) * Pow10(6 - x.s), 6)

\* message bodies: two orders, a body with no marker, a body whose grand total
\* is "$0.00", a body whose grand total is "NaN"
B_order1 == BodyText(<<P_order, P_pad>>)

B_order2 == BodyText(<<P_dt2, P_tot2, P_id2, P_pad>>)

B_nomarker == BodyText(<<P_x, P_x, P_pad>>)

B_zerototal == BodyText(<<P_id2, P_totZero, P_pad>>)

B_nantotal == BodyText(<<P_id1, P_totNaN, P_pad>>)

\* a message of the list: its body, and whether Messages.Get and the base64
\* decoding of the body succeed
Messages ==
    {[body |-> b, get |-> "ok"] :
        b \in {B_order1, B_order2, B_nomarker, B_zerototal, B_nantotal}}
        \cup {[body |-> B_order1, get |-> "err"]}

\* the most messages one listing returns in the model (the code asks for 10)
MaxMsgs == 3

MsgLists == UNION {[1..n -> Messages] : n \in 0..MaxMsgs}

\* the answers to "Do you want to update your database?"
UpdateAnswers == {"yes", "no", "maybe"}

InitSync ==
    /\ update = "" /\ msgs = <<>> /\ msgIdx = 0 /\ Orders = <<>>
    /\ snapshot = <<>> /\ insIdx = 0 /\ store = <<>>
    /\ spc = "ask" /\ abortedBy = ""
    /\ IdleConv /\ IdleQuery /\ IdleExtract /\ IdleView

\* main: fmt.Scanln(&update) and one turn of the UpdateQ loop
AskUpdate ==
    /\ spc = "ask"
    /\ \E u \in UpdateAnswers :
        /\ update' = u
        /\ spc' = IF u = "yes" THEN "list" ELSE IF u = "no" THEN "panel" ELSE "ask"
    /\ UNCHANGED <<msgs, msgIdx, Orders, snapshot, insIdx, store, abortedBy>>
    /\ UNCHANGED <<varsConv, varsQuery, varsExtract, varsView>>

\* ReadData: the listing fails, or returns the messages
ListMessages ==
    /\ spc = "list"
    /\ \/ /\ spc' = "fatal" /\ abortedBy' = "list"
          /\ UNCHANGED msgs
       \/ /\ \E r \in MsgLists : msgs' = r
          /\ spc' = "extract"
          /\ UNCHANGED abortedBy
    /\ UNCHANGED <<update, msgIdx, Orders, snapshot, insIdx, store>>
    /\ UNCHANGED <<varsConv, varsQuery, varsExtract, varsView>>

\* Order{OrdNum: id, OrdDate: date, GrandTotal: tot}
OrderOf(r) == [OrdNum |-> r.id, OrdDate |-> r.date, GrandTotal |-> r.tot]

\* a loop that logs a failed message and moves on to the next
GetOrderFeatsStepSkipping(m, ords, idx) ==
    IF m.get = "err" THEN [Orders |-> ords, msgIdx |-> idx + 1, spc |-> "extract", abortedBy |-> ""]
    ELSE LET r == ExtractFeat(m.body) IN
         IF r.pc = "done"
         THEN [Orders |-> Append(ords, OrderOf(r)), msgIdx |-> idx + 1,
               spc |-> "extract", abortedBy |-> ""]
         ELSE [Orders |-> ords, msgIdx |-> idx + 1, spc |-> "extract", abortedBy |-> ""]

\* GetOrderFeats, the body of the loop for message m: fetch, decode, extract, append
GetOrderFeatsStep(m, ords, idx) ==
    IF m.get = "err"
    THEN [Orders |-> ords, msgIdx |-> idx, spc |-> "fatal", abortedBy |-> "fetch"]
    ELSE LET r == ExtractFeat(m.body) IN
         IF r.pc = "done"
         THEN [Orders |-> Append(ords, OrderOf(r)), msgIdx |-> idx + 1,
               spc |-> "extract", abortedBy |-> ""]
         ELSE IF r.pc = "fatal"
         THEN [Orders |-> ords, msgIdx |-> idx, spc |-> "fatal", abortedBy |-> "extract"]
         ELSE [Orders |-> ords, msgIdx |-> idx, spc |-> "panic", abortedBy |-> "extract"]

\* GetOrderFeats: the next message of the list
ExtractMessage ==
    /\ spc = "extract"
    /\ msgIdx < Len(msgs)
    /\ LET n == GetOrderFeatsStep(msgs[msgIdx + 1], Orders, msgIdx) IN
        /\ Orders' = n.Orders /\ msgIdx' = n.msgIdx
        /\ spc' = n.spc /\ abortedBy' = n.abortedBy
    /\ UNCHANGED <<update, msgs, snapshot, insIdx, store>>
    /\ UNCHANGED <<varsConv, varsQuery, varsExtract, varsView>>

\* json.Marshal(Orders) fails on a float64 that is NaN or infinite
MarshalFails(ords) == \E k \in 1..Len(ords) : ords[k].GrandTotal.k # "num"

\* ReadData after GetOrderFeats returned: an empty batch is fatal, and so is a
\* batch json.Marshal refuses; else the batch is written to Orders.json (the
\* error of WriteFile is dropped, so a failed write leaves the file as it was)
\* and UpdateDB goes on to InsertOrder
SaveOrders ==
    /\ spc = "extract"
    /\ msgIdx = Len(msgs)
    /\ IF Len(Orders) = 0 \/ MarshalFails(Orders)
       THEN /\ spc' = "fatal"
            /\ abortedBy' = IF Len(Orders) = 0 THEN "empty" ELSE "marshal"
            /\ UNCHANGED snapshot
       ELSE /\ snapshot' \in {Orders, snapshot}
            /\ spc' = "insert"
            /\ UNCHANGED abortedBy
    /\ UNCHANGED <<update, msgs, msgIdx, Orders, insIdx, store>>
    /\ UNCHANGED <<varsConv, varsQuery, varsExtract, varsView>>

\* the row of one INSERT: order_id, order_date, grand_total
RowOf(ord) ==
    [order_id |-> ord.OrdNum, order_date |-> ord.OrdDate,
     grand_total |-> FormatF(ord.GrandTotal)]

\* InsertOrder: the INSERT of the next order, which the database runs or refuses
InsertRow ==
    /\ spc = "insert"
    /\ insIdx < Len(Orders)
    /\ \/ /\ store' = Append(store, RowOf(Orders[insIdx + 1]))
          /\ insIdx' = insIdx + 1
          /\ UNCHANGED <<spc, abortedBy>>
       \/ /\ spc' = "fatal" /\ abortedBy' = "insert"
          /\ UNCHANGED <<store, insIdx>>
    /\ UNCHANGED <<update, msgs, msgIdx, Orders, snapshot>>
    /\ UNCHANGED <<varsConv, varsQuery, varsExtract, varsView>>

\* InsertOrder returns: "successfully uploaded data", on to the control panel
FinishUpdate ==
    /\ spc = "insert"
    /\ insIdx = Len(Orders)
    /\ spc' = "panel"
    /\ UNCHANGED <<update, msgs, msgIdx, Orders, snapshot, insIdx, store, abortedBy>>
    /\ UNCHANGED <<varsConv, varsQuery, varsExtract, varsView>>

NextSync ==
    AskUpdate \/ ListMessages \/ ExtractMessage \/ SaveOrders \/ InsertRow \/ FinishUpdate

SpecSync == InitSync /\ [][NextSync]_vars

-----------------------------------------------------------------------------
(* Properties of the sync run *)

\* C2 as stated: an all-empty extraction is treated as "not found": no Order
\* with an empty id and a zero total is appended to the batch or inserted
\* into the store.
C2_NoEmptyOrder ==
    /\ \A k \in 1..Len(Orders) :
        ~(Orders[k].OrdNum = <<>> /\ Orders[k].GrandTotal = ZeroFloat)
    /\ \A k \in 1..Len(store) :
        ~(store[k].order_id = <<>> /\ store[k].grand_total = FormatF(ZeroFloat))

\* the bodies whose extraction ends in log.Fatal, by what they hold
FatalBodies == {B_zerototal}

\* the messages of the list whose extraction is fatal (1-based)
FatalMessages == {k \in 1..Len(msgs) : msgs[k].get = "ok" /\ msgs[k].body \in FatalBodies}

-----------------------------------------------------------------------------
(* CreateView: the condition panel.  Each action is one turn of the CondPanel *)
(* loop: the menu line is read into cat, then the turn's prompts are answered.*)
(* The strings of the panel are read and stored whole, never inspected.       *)

\* condInit
condInit ==
    [start |-> "2021-01-01", end |-> "2021-05-01", lb |-> "0.0", ub |-> "100000",
     numrows |-> "100"]

\* (c Conditions) GetQuery: the pieces of the SELECT, in the order they are joined
CondGetQuery(c) ==
    <<"SELECT * from Wholefoods where '", c.start, "' < order_date and order_date < '",
      c.end, "' and ", c.lb, " < grand_total and grand_total < ", c.ub, " limit ",
      c.numrows>>

\* the largest number typed at the menu in the model (1..6 are the categories)
MaxMenu == 7

\* what Scanln(&cat) is given: a line that is an integer, or a line that is
\* not (an empty line, a word); NoInt stands for the second
NoInt == -1

MenuLines == (0..MaxMenu) \cup {NoInt}

\* Scanln(&cat): cat is declared before the loop and the error of Scanln is
\* dropped, so a line that is no integer leaves cat at its last value
ScanCat(line) == IF line = NoInt THEN cat ELSE line

\* what Scanln reads into a fresh string: the word typed, or "" for an empty line
DateLines == {"", "2021-02-01", "2021-03-15"}

AmountLines == {"", "10", "50.5"}

RowLines == {"", "5", "abc"}

Responses == {"yes", "no", "", "maybe"}

\* resp when the turn showed no override prompt
NotAsked == "(not asked)"

InitView ==
    /\ cond = condInit
    /\ Condmap = [g \in 1..3 |-> FALSE]
    /\ cat = 0
    /\ vpc = "panel"
    /\ resp = NotAsked
    /\ lastQuery = <<>>
    /\ scanOk = TRUE
    /\ IdleConv /\ IdleQuery /\ IdleExtract /\ IdleSync

\* the reading of the menu line, common to every turn
ReadMenu(line) ==
    /\ vpc = "panel"
    /\ cat' = ScanCat(line)
    /\ scanOk' = (line # NoInt)

\* if resp == "no" { continue }: any other answer goes on to overwrite
Override(r) == r # "no"

\* case 1 to 3: the override prompt when the group is set, then the new values
\* (fields is the group's fields with the values read for them)
SetGroup(g, fields) ==
    /\ \E r \in (IF Condmap[g] THEN Responses ELSE {NotAsked}) :
        /\ resp' = r
        /\ IF Condmap[g] /\ ~Override(r)
           THEN UNCHANGED <<cond, Condmap>>
           ELSE /\ cond' = [f \in DOMAIN cond |->
                              IF f \in DOMAIN fields THEN fields[f] ELSE cond[f]]
                /\ Condmap' = [Condmap EXCEPT ![g] = TRUE]
    /\ UNCHANGED <<vpc, lastQuery>>

\* case 1: dates
ChooseDate ==
    /\ \E line \in MenuLines : ReadMenu(line) /\ ScanCat(line) = 1
    /\ \E s \in DateLines, e \in DateLines : SetGroup(1, [start |-> s, end |-> e])
    /\ UNCHANGED <<varsConv, varsQuery, varsExtract, varsSync>>

\* case 2: total amount
ChooseAmount ==
    /\ \E line \in MenuLines : ReadMenu(line) /\ ScanCat(line) = 2
    /\ \E l \in AmountLines, u \in AmountLines : SetGroup(2, [lb |-> l, ub |-> u])
    /\ UNCHANGED <<varsConv, varsQuery, varsExtract, varsSync>>

\* case 3: number of rows
ChooseRows ==
    /\ \E line \in MenuLines : ReadMenu(line) /\ ScanCat(line) = 3
    /\ \E n \in RowLines : SetGroup(3, [numrows |-> n])
    /\ UNCHANGED <<varsConv, varsQuery, varsExtract, varsSync>>

\* RetrieveOrders(db, c): the query is built from c and run; a query or a row
\* the database refuses is fatal
RetrieveOrders(c, after) ==
    /\ lastQuery' = CondGetQuery(c)
    /\ vpc' \in {after, "fatal"}

\* case 4: retrieve all data, with condInit; the loop goes on
RetrieveAll ==
    /\ \E line \in MenuLines : ReadMenu(line) /\ ScanCat(line) = 4
    /\ RetrieveOrders(condInit, "panel")
    /\ resp' = NotAsked
    /\ UNCHANGED <<cond, Condmap>>
    /\ UNCHANGED <<varsConv, varsQuery, varsExtract, varsSync>>

\* case 5: retrieve with the current conditions, then leave the loop
RetrieveCurrent ==
    /\ \E line \in MenuLines : ReadMenu(line) /\ ScanCat(line) = 5
    /\ RetrieveOrders(cond, "returned")
    /\ resp' = NotAsked
    /\ UNCHANGED <<cond, Condmap>>
    /\ UNCHANGED <<varsConv, varsQuery, varsExtract, varsSync>>

\* case 6: leave the loop
ReturnToMain ==
    /\ \E line \in MenuLines : ReadMenu(line) /\ ScanCat(line) = 6
    /\ vpc' = "returned"
    /\ resp' = NotAsked
    /\ UNCHANGED <<cond, Condmap, lastQuery>>
    /\ UNCHANGED <<varsConv, varsQuery, varsExtract, varsSync>>

\* default: "Not a valid category"
InvalidCategory ==
    /\ \E line \in MenuLines : ReadMenu(line) /\ ScanCat(line) \notin 1..6
    /\ resp' = NotAsked
    /\ UNCHANGED <<cond, Condmap, vpc, lastQuery>>
    /\ UNCHANGED <<varsConv, varsQuery, varsExtract, varsSync>>

NextView ==
    \/ ChooseDate \/ ChooseAmount \/ ChooseRows
    \/ RetrieveAll \/ RetrieveCurrent \/ ReturnToMain \/ InvalidCategory

SpecView == InitView /\ [][NextView]_vars

-----------------------------------------------------------------------------
(* Properties of the condition panel *)

\* C3 as stated: after any sequence of menu choices and inputs every field of
\* the current Conditions holds a non-empty string, in particular when choice 5
\* builds its query from them.
C3_FieldsNeverEmpty ==
    vpc # "idle" =>
        /\ \A f \in DOMAIN cond : cond[f] # ""
        /\ \A k \in 1..Len(lastQuery) : lastQuery[k] # ""

\* the fields of group g: 1 dates, 2 amounts, 3 row count
GroupFields(g) ==
    IF g = 1 THEN {"start", "end"} ELSE IF g = 2 THEN {"lb", "ub"} ELSE {"numrows"}

\* this step changes a field of group g
GroupChanged(g) == \E f \in GroupFields(g) : cond'[f] # cond[f]

\* C4 as stated: a group goes from unset to set at its first selection, with
\* no prompt, and never back; once set, its fields are overwritten only after
\* the override prompt was answered "yes"; on "no" the fields keep their values.
C4_OverrideOnlyOnYes ==
    [][\A g \in 1..3 :
          /\ Condmap[g] => Condmap'[g]
          /\ (~Condmap[g] /\ Condmap'[g]) => resp' = NotAsked
          /\ (Condmap[g] /\ GroupChanged(g)) => resp' = "yes"
          /\ (resp' = "no") => cond' = cond]_vars

\* what the user chose in the step just taken: the number typed at the menu,
\* or NoInt for a line that is no number
Chosen == IF scanOk' THEN cat' ELSE NoInt

\* C10 as stated: a step changes at most the group it names: choice g in 1..3
\* only the fields and the flag of group g; choices 4, 5, 6 and invalid choices
\* no field and no flag; choice 4 queries with condInit and stays in the loop.
C10_OneGroupPerStep ==
    [][/\ \A g \in 1..3 :
            (GroupChanged(g) \/ Condmap'[g] # Condmap[g]) => Chosen = g
       /\ Chosen = 4 => /\ lastQuery' = CondGetQuery(condInit)
                        /\ vpc' # "returned"]_vars

=============================================================================
